---- MODULE Spec2Model ----
(***************************************************************************)
(* Feature-set proposal mechanism of src/NhDBN/utils.py: the initial       *)
(* feature set generator, the delete / add / exchange moves and the data   *)
(* selector, design matrix builder and prior mean constructor that a       *)
(* sampler evaluates on the current feature set.                           *)
(*                                                                         *)
(* A numpy 1-D array is a sequence of integers.  A call of a move is a set *)
(* of outcomes, one per value the random source can draw; an outcome       *)
(* records the exit (returned or raised), the content of the caller's      *)
(* array after the call, and the returned array.                           *)
(***************************************************************************)
EXTENDS Integers, Sequences, FiniteSets, TLC

\* ---------------------------------------------------------------- bounds
MaxFeatures == 4
MaxLen == 3
MaxSamples == 2

VARIABLES numFeatures, fanInRestriction, numSamples, pc, Pi, call, mu, X

vars == <<numFeatures, fanInRestriction, numSamples, pc, Pi, call, mu, X>>

\* ------------------------------------------------------- numpy primitives
Range(s) == {s[i] : i \in 1..Len(s)}

Distinct(s) == \A i, j \in 1..Len(s) : i # j => s[i] # s[j]

RECURSIVE SortedSeq(_)
SortedSeq(S) ==
  IF S = {} THEN <<>>
  ELSE LET m == CHOOSE x \in S : \A y \in S : x <= y
       IN  <<m>> \o SortedSeq(S \ {m})

\* np.setdiff1d(ar1, ar2): the sorted, unique values of ar1 that are not in ar2
setdiff1d(ar1, ar2) == SortedSeq(Range(ar1) \ Range(ar2))

\* np.random.choice(a) on a 1-D array: the values a draw can produce
choice(a) == {a[i] : i \in 1..Len(a)}

\* np.random.choice(n, size, replace=False): every ordered sample of size
\* distinct values of arange(n)
choiceNoReplace(n, size) ==
  {s \in [1..size -> 0..(n - 1)] : \A i, j \in 1..size : i # j => s[i] # s[j]}

\* np.add(array, 1)
add1(a) == [i \in 1..Len(a) |-> a[i] + 1]

\* np.arange(n)
arange(n) == [i \in 1..n |-> i - 1]

\* np.append(arr, value)
append(arr, value) == Append(arr, value)

Returned(featureSet, result, removed, added) ==
  [status |-> "ok", featureSet |-> featureSet, ret |-> result,
   elRemoved |-> removed, elAdded |-> added]

Raised(featureSet) ==
  [status |-> "ValueError", featureSet |-> featureSet, ret |-> <<>>,
   elRemoved |-> 0, elAdded |-> 0]


\* ------------------------------------------------------------ data model
\* The dictionary key 'X' + str(int(feature))
currKey(feature) == <<"X", feature>>

\* A Python dict keeps insertion order: a sequence of <<key, value>> pairs
dictKeys(d) == [i \in 1..Len(d) |-> d[i][1]]

dictHas(d, k) == \E i \in 1..Len(d) : d[i][1] = k

dictGet(d, k) == d[CHOOSE i \in 1..Len(d) : d[i][1] = k][2]

\* d[k] = v: overwrites the value of a key already present, else inserts last
dictSet(d, k, v) ==
  IF dictHas(d, k)
  THEN [i \in 1..Len(d) |-> IF d[i][1] = k THEN <<k, v>> ELSE d[i]]
  ELSE Append(d, <<k, v>>)

\* The full dataset: features X1..Xdimensions, each of num_samples values,
\* and the response y
data(num_samples, dimensions) ==
  [features |-> [i \in 1..dimensions |->
                   <<currKey(i), [s \in 1..num_samples |-> 10 * i + s]>>],
   response |-> <<<<"y", [s \in 1..num_samples |-> 0]>>>>]

RECURSIVE selectFeatures(_, _, _)
selectFeatures(fullData, featureSet, partial) ==
  IF featureSet = <<>> THEN partial
  ELSE LET k == currKey(Head(featureSet))
       IN  selectFeatures(fullData, Tail(featureSet),
                          dictSet(partial, k, dictGet(fullData.features, k)))

selectData(fullData, featureSet) ==
  [features |-> selectFeatures(fullData, featureSet, <<>>), response |-> <<>>]

constructMuMatrix(featureSet) ==
  LET n == Len(featureSet) + 1
  IN  [i \in 1..n |-> <<0>>]

\* np.vstack over the features in key order, starting from the ones vector
RECURSIVE vstackAll(_, _, _)
vstackAll(designMatrix, features, currFeatures) ==
  IF currFeatures = <<>> THEN designMatrix
  ELSE vstackAll(Append(designMatrix, dictGet(features, Head(currFeatures))),
                 features, Tail(currFeatures))

\* M.T of a 2-D array given as a sequence of rows
Transpose(M) == [j \in 1..Len(M[1]) |-> [i \in 1..Len(M) |-> M[i][j]]]

constructDesignMatrix(partialData, num_samples) ==
  LET ones_vector  == [s \in 1..num_samples |-> 1]
      currFeatures == dictKeys(partialData.features)
      designMatrix == vstackAll(<<ones_vector>>, partialData.features, currFeatures)
  IN  IF Len(currFeatures) < 1
      THEN [s \in 1..num_samples |-> <<ones_vector[s]>>]
      ELSE Transpose(designMatrix)

\* ------------------------------------------------- initial feature set
generateInitialNoShift(nFeatures, fanIn) ==
  IF fanIn > nFeatures THEN {Raised(<<>>)}
  ELSE {Returned(<<>>, randomIdx, 0, 0) : randomIdx \in choiceNoReplace(nFeatures, fanIn)}

generateInitialFeatureSet(nFeatures, fanIn) ==
  IF fanIn > nFeatures THEN {Raised(<<>>)}
  ELSE {Returned(<<>>, add1(randomIdx), 0, 0) :
          randomIdx \in choiceNoReplace(nFeatures, fanIn)}

\* ------------------------------------------------------------ the moves
\* deleteMove drawing elToDel from all feature ids instead of featureSet
deleteMoveDrawsFromAll(featureSet, nFeatures, fanIn) ==
  IF Len(featureSet) < 2 THEN {Raised(featureSet)}
  ELSE {Returned(featureSet, setdiff1d(featureSet, <<elToDel>>), elToDel, 0) :
          elToDel \in choice(add1(arange(nFeatures)))}

\* deleteMove with the guard len(featureSet) < 1
deleteMoveGuardOffByOne(featureSet, nFeatures, fanIn) ==
  IF Len(featureSet) < 1 THEN {Raised(featureSet)}
  ELSE {Returned(featureSet, setdiff1d(featureSet, <<elToDel>>), elToDel, 0) :
          elToDel \in choice(featureSet)}

deleteMove(featureSet, nFeatures, fanIn) ==
  IF Len(featureSet) < 2 THEN {Raised(featureSet)}
  ELSE {Returned(featureSet, setdiff1d(featureSet, <<elToDel>>), elToDel, 0) :
          elToDel \in choice(featureSet)}

\* addMove drawing featureToAdd from allFeatures instead of the candidates
addMoveDrawsFromAll(featureSet, nFeatures, fanIn) ==
  IF Len(featureSet) > fanIn - 1 THEN {Raised(featureSet)}
  ELSE LET allFeatures == add1(arange(nFeatures))
       IN  IF allFeatures = <<>> THEN {Raised(featureSet)}
           ELSE {Returned(featureSet, append(featureSet, featureToAdd), 0, featureToAdd) :
                   featureToAdd \in choice(allFeatures)}

addMove(featureSet, nFeatures, fanIn) ==
  IF Len(featureSet) > fanIn - 1 THEN {Raised(featureSet)}
  ELSE LET allFeatures         == add1(arange(nFeatures))
           candidateFeatureSet == setdiff1d(allFeatures, featureSet)
       IN  IF candidateFeatureSet = <<>> THEN {Raised(featureSet)}
           ELSE {Returned(featureSet, append(featureSet, featureToAdd), 0, featureToAdd) :
                   featureToAdd \in choice(candidateFeatureSet)}

\* exchangeMove writing the reduced set into the caller's array
exchangeMoveInPlace(featureSet, nFeatures, fanIn) ==
  IF Len(featureSet) < 1 THEN {Raised(featureSet)}
  ELSE LET allFeatures == add1(arange(nFeatures))
       IN  UNION {
             LET allFeaturesNoExchange == setdiff1d(allFeatures, <<elToExchange>>)
                 reduced               == setdiff1d(featureSet, <<elToExchange>>)
             IN  IF allFeaturesNoExchange = <<>> THEN {Raised(reduced)}
                 ELSE {Returned(reduced, append(reduced, elToAdd), elToExchange, elToAdd) :
                         elToAdd \in choice(allFeaturesNoExchange)}
             : elToExchange \in choice(featureSet)}

\* exchangeMove drawing elToAdd from allFeatures, elToExchange included
exchangeMovePoolAll(featureSet, nFeatures, fanIn) ==
  IF Len(featureSet) < 1 THEN {Raised(featureSet)}
  ELSE LET allFeatures == add1(arange(nFeatures))
       IN  UNION {
             LET reduced == setdiff1d(featureSet, <<elToExchange>>)
             IN  {Returned(featureSet, append(reduced, elToAdd), elToExchange, elToAdd) :
                    elToAdd \in choice(allFeatures)}
             : elToExchange \in choice(featureSet)}

exchangeMove(featureSet, nFeatures, fanIn) ==
  IF Len(featureSet) < 1 THEN {Raised(featureSet)}
  ELSE LET allFeatures == add1(arange(nFeatures))
       IN  UNION {
             LET allFeaturesNoExchange == setdiff1d(allFeatures, <<elToExchange>>)
                 reduced               == setdiff1d(featureSet, <<elToExchange>>)
             IN  IF allFeaturesNoExchange = <<>> THEN {Raised(featureSet)}
                 ELSE {Returned(featureSet, append(reduced, elToAdd), elToExchange, elToAdd) :
                         elToAdd \in choice(allFeaturesNoExchange)}
             : elToExchange \in choice(featureSet)}

\* ------------------------------------------------------------- the walk
NoCall == [op |-> "none", arg |-> <<>>, featureSet |-> <<>>, status |-> "ok",
           ret |-> <<>>, elRemoved |-> 0, elAdded |-> 0]

CallOf(name, argument, o) ==
  [op |-> name, arg |-> argument, featureSet |-> o.featureSet, status |-> o.status,
   ret |-> o.ret, elRemoved |-> o.elRemoved, elAdded |-> o.elAdded]

\* The sampler before its first iteration: the constants are fixed, no set yet
Init ==
  /\ numFeatures \in 1..MaxFeatures
  /\ fanInRestriction \in 1..(numFeatures + 1)
  /\ numSamples \in 1..MaxSamples
  /\ pc = "start"
  /\ Pi = <<>>
  /\ call = NoCall
  /\ mu = <<>>
  /\ X = <<>>

\* Inputs of the moves drawn from every array over [1, numFeatures] of at most
\* MaxLen entries, next to the sampler's start states
InitArgs ==
  /\ numFeatures \in 1..MaxFeatures
  /\ fanInRestriction \in 1..(numFeatures + 1)
  /\ numSamples \in 1..MaxSamples
  /\ \/ /\ pc = "start"
        /\ Pi = <<>>
     \/ /\ pc = "walk"
        /\ Pi \in UNION {[1..n -> 1..numFeatures] : n \in 0..MaxLen}
  /\ call = NoCall
  /\ mu = <<>>
  /\ X = <<>>

Generate ==
  /\ pc = "start"
  /\ \E o \in generateInitialFeatureSet(numFeatures, fanInRestriction) :
       /\ call' = CallOf("generate", <<>>, o)
       /\ pc' = IF o.status = "ok" THEN "walk" ELSE "failed"
       /\ Pi' = IF o.status = "ok" THEN o.ret ELSE Pi
  /\ mu' = <<>>
  /\ X' = <<>>
  /\ UNCHANGED <<numFeatures, fanInRestriction, numSamples>>

\* The sampler's handling of one proposal: a returned set replaces the
\* current one, a raised error leaves the caller with the array it passed
Proposed(name, o) ==
  /\ call' = CallOf(name, Pi, o)
  /\ Pi' = IF o.status = "ok" THEN o.ret ELSE o.featureSet
  /\ mu' = <<>>
  /\ X' = <<>>

Delete ==
  /\ pc = "walk"
  /\ \E o \in deleteMove(Pi, numFeatures, fanInRestriction) : Proposed("delete", o)
  /\ UNCHANGED <<numFeatures, fanInRestriction, numSamples, pc>>

Add ==
  /\ pc = "walk"
  /\ \E o \in addMove(Pi, numFeatures, fanInRestriction) : Proposed("add", o)
  /\ UNCHANGED <<numFeatures, fanInRestriction, numSamples, pc>>

Exchange ==
  /\ pc = "walk"
  /\ \E o \in exchangeMove(Pi, numFeatures, fanInRestriction) : Proposed("exchange", o)
  /\ UNCHANGED <<numFeatures, fanInRestriction, numSamples, pc>>

\* The quantities of the acceptance ratio for the current set
Evaluate ==
  /\ pc = "walk"
  /\ call.op # "evaluate"
  /\ mu' = constructMuMatrix(Pi)
  /\ X' = constructDesignMatrix(selectData(data(numSamples, numFeatures), Pi), numSamples)
  /\ call' = [NoCall EXCEPT !.op = "evaluate", !.arg = Pi, !.featureSet = Pi]
  /\ UNCHANGED <<numFeatures, fanInRestriction, numSamples, pc, Pi>>

Next == Generate \/ Delete \/ Add \/ Exchange \/ Evaluate

Spec == Init /\ [][Next]_vars

SpecArgs == InitArgs /\ [][Next]_vars


\* ---------------------------------------------------------- properties
Moves == {"delete", "add", "exchange"}

\* A feature set as the data model defines it: distinct ids in [1, numFeatures]
ValidIds(fs) == Distinct(fs) /\ Range(fs) \subseteq 1..numFeatures

MovesFrom(fs) ==
  deleteMove(fs, numFeatures, fanInRestriction)
    \cup addMove(fs, numFeatures, fanInRestriction)
    \cup exchangeMove(fs, numFeatures, fanInRestriction)

\* C1: every feature set the walk holds, from the generated initial set on,
\* has no duplicate entry, has every entry in [1, numFeatures] and has between
\* 1 and fanInRestriction entries.
C1_WalkInvariant ==
  pc = "walk" =>
    /\ Distinct(Pi)
    /\ Range(Pi) \subseteq 1..numFeatures
    /\ 1 <= Len(Pi)
    /\ Len(Pi) <= fanInRestriction

\* C2: on a set of distinct ids in [1, numFeatures] with 2 <= |Pi| <=
\* fanInRestriction, every result of deleteMove has |Pi| - 1 elements and is a
\* strict subset of Pi, and every element of Pi can be the removed one.
C2_DeleteRemovesOne ==
  ( /\ call.op = "delete"
    /\ ValidIds(call.arg)
    /\ 2 <= Len(call.arg)
    /\ Len(call.arg) <= fanInRestriction ) =>
    /\ call.status = "ok" =>
         /\ Len(call.ret) = Len(call.arg) - 1
         /\ Cardinality(Range(call.ret)) = Len(call.arg) - 1
         /\ Range(call.ret) \subseteq Range(call.arg)
         /\ Range(call.ret) # Range(call.arg)
    /\ \A e \in Range(call.arg) :
         \E o \in deleteMove(call.arg, numFeatures, fanInRestriction) :
           /\ o.status = "ok"
           /\ o.elRemoved = e
           /\ Range(o.ret) = Range(call.arg) \ {e}

C2_Witness ==
  /\ call.op = "delete"
  /\ call.status = "ok"
  /\ ValidIds(call.arg)
  /\ Len(call.arg) = 3
  /\ Len(call.arg) <= fanInRestriction
  /\ Len(call.ret) = 2

\* C3: on a set of distinct ids in [1, numFeatures] with |Pi| <=
\* fanInRestriction - 1 and numFeatures > |Pi|, every result of addMove has
\* |Pi| + 1 elements, is a strict superset of Pi, and the one added element
\* lies in [1, numFeatures] \ Pi.
C3_AddAddsOneNew ==
  ( /\ call.op = "add"
    /\ call.status = "ok"
    /\ ValidIds(call.arg)
    /\ Len(call.arg) <= fanInRestriction - 1
    /\ numFeatures > Len(call.arg) ) =>
    /\ Len(call.ret) = Len(call.arg) + 1
    /\ Cardinality(Range(call.ret)) = Len(call.arg) + 1
    /\ Range(call.arg) \subseteq Range(call.ret)
    /\ Range(call.ret) \ Range(call.arg) = {call.elAdded}
    /\ call.elAdded \in (1..numFeatures) \ Range(call.arg)

C3_Witness ==
  /\ call.op = "add"
  /\ call.status = "ok"
  /\ ValidIds(call.arg)
  /\ Len(call.arg) = 2
  /\ Len(call.arg) <= fanInRestriction - 1
  /\ Len(call.ret) = 3

\* C4: on a set of distinct ids in [1, numFeatures] with 1 <= |Pi| <=
\* fanInRestriction, every result of exchangeMove has exactly |Pi| distinct
\* elements.
C4_ExchangeKeepsCardinality ==
  ( /\ call.op = "exchange"
    /\ call.status = "ok"
    /\ ValidIds(call.arg)
    /\ 1 <= Len(call.arg)
    /\ Len(call.arg) <= fanInRestriction ) =>
    Cardinality(Range(call.ret)) = Cardinality(Range(call.arg))

\* C5: a move whose precondition fails raises and returns no set (deleteMove
\* below 2 elements, addMove above fanInRestriction - 1 elements, exchangeMove
\* on the empty set), and the caller's current set stays what it was.
C5_PreconditionFailureRaises ==
  ( \/ call.op = "delete" /\ Len(call.arg) < 2
    \/ call.op = "add" /\ Len(call.arg) > fanInRestriction - 1
    \/ call.op = "exchange" /\ Len(call.arg) = 0 ) =>
    /\ call.status = "ValueError"
    /\ call.ret = <<>>
    /\ Pi = call.arg

C5_Witness ==
  /\ call.op = "delete"
  /\ Len(call.arg) = 1
  /\ call.status = "ValueError"
  /\ Pi = call.arg

\* C6: a call of a move, returning or raising, leaves the array the caller
\* passed with the same entries in the same order, and leaves numFeatures and
\* fanInRestriction as they were.
C6_MovesLeaveInputUntouched ==
  [][ call'.op \in Moves =>
        /\ call'.arg = Pi
        /\ call'.featureSet = Pi
        /\ numFeatures' = numFeatures
        /\ fanInRestriction' = fanInRestriction ]_vars

C6_Witness ==
  /\ call.op = "exchange"
  /\ call.status = "ok"
  /\ Len(call.arg) >= 2
  /\ call.featureSet = call.arg
  /\ call.ret # call.arg

\* C7: with 1 <= fanInRestriction <= numFeatures every result of
\* generateInitialFeatureSet is fanInRestriction pairwise distinct integers of
\* [1, numFeatures]; with fanInRestriction > numFeatures it raises and the
\* caller has no set.
C7_InitialSet ==
  call.op = "generate" =>
    /\ ( fanInRestriction <= numFeatures /\ call.status = "ok" ) =>
         /\ Len(call.ret) = fanInRestriction
         /\ Distinct(call.ret)
         /\ \A i \in 1..Len(call.ret) : call.ret[i] \in 1..numFeatures
         /\ Pi = call.ret
    /\ fanInRestriction > numFeatures =>
         /\ call.status = "ValueError"
         /\ call.ret = <<>>
         /\ pc = "failed"

C7_Witness ==
  /\ call.op = "generate"
  /\ call.status = "ok"
  /\ fanInRestriction = 3
  /\ Len(call.ret) = 3
  /\ numFeatures \in Range(call.ret)

\* C8: for every set the walk holds, the prior mean vector has as many entries
\* as the design matrix of the selected data has columns, both being the
\* number of entries of Pi plus one; the design matrix has numSamples rows and
\* its column 0 is all ones.
C8_MuMatchesDesignMatrix ==
  call.op = "evaluate" =>
    /\ Len(mu) = Len(Pi) + 1
    /\ Len(X) = numSamples
    /\ \A s \in 1..Len(X) : Len(X[s]) = Len(mu) /\ X[s][1] = 1

\* C9 as stated: from a set of distinct ids with |Pi| >= 1 and numFeatures >= 2
\* some execution of exchangeMove adds the element it removed and returns Pi
\* as a set.
C9_MayReselectRemoved ==
  ( /\ pc = "walk"
    /\ Distinct(Pi)
    /\ Len(Pi) >= 1
    /\ numFeatures >= 2 ) =>
    \E o \in exchangeMove(Pi, numFeatures, fanInRestriction) :
      /\ o.status = "ok"
      /\ o.elAdded = o.elRemoved
      /\ Range(o.ret) = Range(Pi)

\* C9 amended: from a set of distinct ids with |Pi| >= 1 and numFeatures >= 2
\* no execution of exchangeMove adds the element it removed, so the result
\* never equals Pi as a set.
C9_NeverReselectsRemoved ==
  ( /\ call.op = "exchange"
    /\ call.status = "ok"
    /\ Distinct(call.arg)
    /\ Len(call.arg) >= 1
    /\ numFeatures >= 2 ) =>
    /\ call.elRemoved \in Range(call.arg)
    /\ call.elAdded # call.elRemoved
    /\ call.elRemoved \notin Range(call.ret)
    /\ Range(call.ret) # Range(call.arg)

C9_Witness ==
  /\ call.op = "exchange"
  /\ call.status = "ok"
  /\ Distinct(call.arg)
  /\ Len(call.arg) >= 2
  /\ numFeatures >= 2
  /\ call.elAdded \notin Range(call.arg)

\* C10: with fanInRestriction <= numFeatures, from every set Pi' that a
\* successful move returned from a set Pi of distinct ids in [1, numFeatures]
\* with 1 <= |Pi| <= fanInRestriction, some single successful move returns Pi
\* as a set.
C10_OneStepReversible ==
  ( /\ call.op \in Moves
    /\ call.status = "ok"
    /\ fanInRestriction <= numFeatures
    /\ ValidIds(call.arg)
    /\ 1 <= Len(call.arg)
    /\ Len(call.arg) <= fanInRestriction ) =>
    \E o \in MovesFrom(call.ret) :
      /\ o.status = "ok"
      /\ Range(o.ret) = Range(call.arg)

====
